---- MODULE Spec2Model ----
(***************************************************************************)
(* Model of the value-chaining and substitution pipeline of chainer:       *)
(* processHar -> findChainedValues -> extractPredefinedVars ->             *)
(* repopulateCallDetails -> updateComplexPaths -> assignVariableNames ->   *)
(* assignCallDetailNames -> BuildPostmanCollection -> WriteCollectionToFile*)
(* Texts are TLA+ strings (sequences of characters); a parser is the       *)
(* inverse of the renderer over the bounded universe of documents.         *)
(***************************************************************************)
EXTENDS Integers, Sequences, FiniteSets, TLC

VARIABLES
    pc,             \* position of run(): the stage that executes next
    har,            \* the capture: sequence of Entry (request/response pairs)
    vars,           \* the externally declared values (varsInput records)
    callDetails,    \* []*CallDetails, one per entry
    chains,         \* []*ChainedValueContext
    log,            \* diagnostics written with log.Printf
    collection,     \* the PostmanCollection built by BuildPostmanCollection
    outcome,        \* how run() ended: "running", "ok", "error", "fatal", "panic"
    retry           \* one call of a function wrapped by WithRetries, step by step

vars_all == <<pc, har, vars, callDetails, chains, log, collection, outcome, retry>>

(***************************************************************************)
(* Bounds                                                                  *)
(***************************************************************************)
MaxEntries == 2

(***************************************************************************)
(* strings                                                                 *)
(***************************************************************************)
Nil == [nil |-> TRUE]

Ch(s, i) == SubSeq(s, i, i)

HasPrefix(s, p) == Len(s) >= Len(p) /\ SubSeq(s, 1, Len(p)) = p

TrimPrefix(s, p) == IF HasPrefix(s, p) THEN SubSeq(s, Len(p) + 1, Len(s)) ELSE s

\* strings.Index from position i (1-based); 0 when absent
RECURSIVE IndexFrom(_, _, _)
IndexFrom(s, sub, i) ==
    IF i + Len(sub) - 1 > Len(s) THEN 0
    ELSE IF SubSeq(s, i, i + Len(sub) - 1) = sub THEN i
    ELSE IndexFrom(s, sub, i + 1)

Contains(s, sub) == IndexFrom(s, sub, 1) > 0

\* strings.ReplaceAll for a non-empty old: leftmost, non-overlapping
RECURSIVE ReplaceAll(_, _, _)
ReplaceAll(s, old, new) ==
    LET i == IndexFrom(s, old, 1) IN
    IF old = "" \/ i = 0 THEN s
    ELSE SubSeq(s, 1, i - 1) \o new
         \o ReplaceAll(SubSeq(s, i + Len(old), Len(s)), old, new)

\* strings.Split for a one-character separator
RECURSIVE Split(_, _)
Split(s, sep) ==
    LET i == IndexFrom(s, sep, 1) IN
    IF i = 0 THEN <<s>>
    ELSE <<SubSeq(s, 1, i - 1)>> \o Split(SubSeq(s, i + 1, Len(s)), sep)

Upper == "ABCDEFGHIJKLMNOPQRSTUVWXYZ"
Lower == "abcdefghijklmnopqrstuvwxyz"

RECURSIVE ToLower(_)
ToLower(s) ==
    IF s = "" THEN ""
    ELSE LET c == Ch(s, 1)
             i == IndexFrom(Upper, c, 1)
         IN (IF i = 0 THEN c ELSE Ch(Lower, i)) \o ToLower(SubSeq(s, 2, Len(s)))

Whitespace == {" "}

\* strings.TrimSpace(body) == ""
IsBlank(s) == \A i \in 1..Len(s) : Ch(s, i) \in Whitespace

Digits == "0123456789"

RECURSIVE Itoa(_)
Itoa(n) ==
    IF n < 10 THEN Ch(Digits, n + 1)
    ELSE Itoa(n \div 10) \o Ch(Digits, (n % 10) + 1)

RECURSIVE StripZeros(_)
StripZeros(s) ==
    IF s # "" /\ Ch(s, Len(s)) = "0" THEN StripZeros(SubSeq(s, 1, Len(s) - 1)) ELSE s

(***************************************************************************)
(* values: the dynamic type of ValueReference.Value                        *)
(***************************************************************************)
StrV(s) == [t |-> "str", s |-> s, n |-> 0]
NumV(n) == [t |-> "num", s |-> "", n |-> n]
BoolV(b) == [t |-> "bool", s |-> IF b THEN "true" ELSE "false", n |-> 0]
NullV == [t |-> "null", s |-> "", n |-> 0]

\* fmt.Sprintf("%v", float64): %g with the shortest representation, which
\* switches to exponent notation from 1e+06 (decimal exponent >= 21 only in
\* encoding/json); the numbers of the model are non-negative integers
FormatFloat(n) ==
    LET d == Itoa(n)
        e == Len(d) - 1
        m == StripZeros(d)
    IN IF e < 6 THEN d
       ELSE Ch(m, 1) \o (IF Len(m) > 1 THEN "." \o SubSeq(m, 2, Len(m)) ELSE "")
            \o "e+" \o (IF e < 10 THEN "0" ELSE "") \o Itoa(e)

\* fmt.Sprintf("%v", v.Value)
Sprint(v) ==
    CASE v.t = "str" -> v.s
      [] v.t = "num" -> FormatFloat(v.n)
      [] v.t = "bool" -> v.s
      [] OTHER -> "<nil>"

(***************************************************************************)
(* JSON documents: json.Unmarshal into interface{} gives objects (Go maps, *)
(* iterated in unspecified order), arrays and leaves                       *)
(***************************************************************************)
Obj(kv) == [t |-> "obj", kv |-> kv]
Arr(el) == [t |-> "arr", el |-> el]
KV(k, v) == [k |-> k, v |-> v]

IsLeaf(d) == d.t \notin {"obj", "arr"}

RECURSIVE JoinStr(_, _)
JoinStr(ss, sep) ==
    IF ss = <<>> THEN ""
    ELSE IF Len(ss) = 1 THEN ss[1]
    ELSE ss[1] \o sep \o JoinStr(Tail(ss), sep)

\* the text of a document as it stands in a captured body
RECURSIVE RenderJSON(_)
RenderJSON(d) ==
    CASE d.t = "obj" ->
           "{" \o JoinStr([i \in 1..Len(d.kv) |->
                             "\"" \o d.kv[i].k \o "\":" \o RenderJSON(d.kv[i].v)], ",") \o "}"
      [] d.t = "arr" ->
           "[" \o JoinStr([i \in 1..Len(d.el) |-> RenderJSON(d.el[i])], ",") \o "]"
      [] d.t = "str" -> "\"" \o d.s \o "\""
      [] d.t = "num" -> Itoa(d.n)
      [] d.t = "bool" -> d.s
      [] OTHER -> "null"

\* the documents that occur in the captures of the model
JsonDocs ==
    { Obj(<<KV("token", StrV("abc"))>>),
      Obj(<<KV("r", Arr(<<NumV(1234567), Obj(<<KV("id", StrV("xy"))>>)>>)), KV("n", Arr(<<Arr(<<NumV(12345)>>)>>))>>),
      Obj(<<KV("id", StrV("abc")), KV("q", StrV("xy"))>>) }

\* json.Unmarshal([]byte(data), &jsonData)
ParseJSON(text) ==
    IF \E d \in JsonDocs : RenderJSON(d) = text
    THEN [err |-> FALSE, v |-> CHOOSE d \in JsonDocs : RenderJSON(d) = text]
    ELSE [err |-> TRUE, v |-> NullV]

Perms(n) == { p \in [1..n -> 1..n] : \A i, j \in 1..n : p[i] = p[j] => i = j }

\* all concatenations of one choice per position
RECURSIVE ConcatChoices(_)
ConcatChoices(sets) ==
    IF sets = <<>> THEN {<<>>}
    ELSE { a \o b : a \in sets[1], b \in ConcatChoices(Tail(sets)) }

\* a ValueReference as the extractor creates it (Source, SourceType and
\* Context are filled in later)
NewRef(value, path, header, loc) ==
    [Value |-> value, ReferencePath |-> path, HeaderName |-> header,
     SourceLocation |-> loc, Source |-> 0, SourceType |-> "", Context |-> 0]

\* flatten: the set of lists it can return, one per iteration order of the maps
RECURSIVE flatten(_, _)
flatten(prefix, data) ==
    CASE data.t = "obj" ->
           LET n == Len(data.kv)
               fullKey(i) == IF prefix # "" THEN prefix \o "." \o data.kv[i].k
                             ELSE data.kv[i].k
           IN UNION { ConcatChoices([i \in 1..n |-> flatten(fullKey(p[i]), data.kv[p[i]].v)])
                      : p \in Perms(n) }
      [] data.t = "arr" ->
           ConcatChoices([i \in 1..Len(data.el) |->
                            flatten(prefix \o "[" \o Itoa(i - 1) \o "]", data.el[i])])
      [] OTHER -> { <<NewRef(data, prefix, "", "bodyJson")>> }

\* FlattenJSON: [err, refs] where refs is the set of possible lists
FlattenJSON(text) ==
    LET r == ParseJSON(text) IN
    IF r.err THEN [err |-> TRUE, refs |-> {<<>>}]
    ELSE [err |-> FALSE, refs |-> flatten("", r.v)]

(***************************************************************************)
(* URLs and form data                                                      *)
(***************************************************************************)
HexDigits == "0123456789abcdefABCDEF"

\* a '%' that is not followed by two hex digits (url.EscapeError)
HasBadEscape(s) ==
    \E i \in 1..Len(s) :
        /\ Ch(s, i) = "%"
        /\ \/ i + 2 > Len(s)
           \/ ~Contains(HexDigits, Ch(s, i + 1))
           \/ ~Contains(HexDigits, Ch(s, i + 2))

\* url.ParseQuery for texts without escapes: the pairs in textual order
ParseQuery(q) ==
    LET parts == IF q = "" THEN <<>> ELSE Split(q, "&")
        pair(p) == LET i == IndexFrom(p, "=", 1) IN
                   IF i = 0 THEN [k |-> p, v |-> ""]
                   ELSE [k |-> SubSeq(p, 1, i - 1), v |-> SubSeq(p, i + 1, Len(p))]
        good == SelectSeq(parts, LAMBDA p : p # "" /\ ~HasBadEscape(p) /\ ~Contains(p, ";"))
    IN [err |-> \E i \in 1..Len(parts) : HasBadEscape(parts[i]) \/ Contains(parts[i], ";"),
        pairs |-> [i \in 1..Len(good) |-> pair(good[i])]]

\* url.Parse for absolute URLs scheme://host/path?query
ParseURL(raw) ==
    LET i == IndexFrom(raw, "://", 1)
        rest == IF i = 0 THEN raw ELSE SubSeq(raw, i + 3, Len(raw))
        q == IndexFrom(rest, "?", 1)
        hp == IF q = 0 THEN rest ELSE SubSeq(rest, 1, q - 1)
        s == IndexFrom(hp, "/", 1)
    IN IF HasBadEscape(hp) THEN [err |-> TRUE, Scheme |-> "", Host |-> "", Path |-> "", RawQuery |-> ""]
       ELSE [err |-> FALSE,
             Scheme |-> IF i = 0 THEN "" ELSE SubSeq(raw, 1, i - 1),
             Host |-> IF i = 0 THEN "" ELSE IF s = 0 THEN hp ELSE SubSeq(hp, 1, s - 1),
             Path |-> IF i = 0 THEN hp ELSE IF s = 0 THEN "" ELSE SubSeq(hp, s, Len(hp)),
             RawQuery |-> IF q = 0 THEN "" ELSE SubSeq(rest, q + 1, Len(rest))]

\* path.Clean for paths without "." , ".." and "//" elements
PathClean(p) ==
    IF p = "" THEN "."
    ELSE IF Len(p) > 1 /\ Ch(p, Len(p)) = "/" THEN SubSeq(p, 1, Len(p) - 1)
    ELSE p

\* the keys of url.Values in order of first occurrence
RECURSIVE KeysOf(_)
KeysOf(pairs) ==
    IF pairs = <<>> THEN <<>>
    ELSE LET rest == KeysOf(SubSeq(pairs, 1, Len(pairs) - 1))
             k == pairs[Len(pairs)].k
         IN IF \E i \in 1..Len(rest) : rest[i] = k THEN rest ELSE Append(rest, k)

ValuesOf(pairs, key) ==
    LET sel == SelectSeq(pairs, LAMBDA p : p.k = key) IN [i \in 1..Len(sel) |-> sel[i].v]

\* the references made for a url.Values map, one list per iteration order
ValuesRefs(pairs, prefix, loc) ==
    LET keys == KeysOf(pairs)
        n == Len(keys)
        refsOf(key) == LET vs == ValuesOf(pairs, key) IN
                       [j \in 1..Len(vs) |-> NewRef(StrV(vs[j]), prefix \o key \o "[" \o Itoa(j - 1) \o "]", "", loc)]
        RECURSIVE cat(_)
        cat(ss) == IF ss = <<>> THEN <<>> ELSE ss[1] \o cat(Tail(ss))
    IN { cat([i \in 1..n |-> refsOf(keys[p[i]])]) : p \in Perms(n) }

\* ExtractURLStrings: [err, refs]
ExtractURLStrings(rawURL) ==
    LET u == ParseURL(rawURL)
        segments == Split(PathClean(u.Path), "/")
        idx == SelectSeq([i \in 1..Len(segments) |-> i], LAMBDA i : segments[i] # "")
        segRefs == [k \in 1..Len(idx) |->
                      NewRef(StrV(segments[idx[k]]),
                             "path[" \o Itoa(idx[k] - 1) \o "]", "", "header")]
    IN IF u.err THEN [err |-> TRUE, refs |-> {<<>>}]
       ELSE [err |-> FALSE,
             refs |-> { segRefs \o q : q \in ValuesRefs(ParseQuery(u.RawQuery).pairs, "query.", "header") }]

(***************************************************************************)
(* Extractor                                                               *)
(***************************************************************************)
Header(name, value) == [Name |-> name, Value |-> value]

\* processBody: [err, refs], refs the set of lists it can return
processBody(body, contentType) ==
    IF contentType = "application/json" THEN
        IF IsBlank(body) THEN [err |-> FALSE, refs |-> {<<>>}]
        ELSE FlattenJSON(body)
    ELSE IF contentType = "application/x-www-form-urlencoded" THEN
        LET formValues == ParseQuery(body)
        IN IF formValues.err THEN [err |-> TRUE, refs |-> {<<>>}]
           ELSE [err |-> FALSE, refs |-> ValuesRefs(formValues.pairs, "", "bodyForm")]
    ELSE [err |-> FALSE, refs |-> {<<>>}]

blacklist == {"content-length", "host", "connection", "cache-control", "postman-token"}

\* the value of a header taken verbatim
HeaderRefVerbatim(header) == NewRef(StrV(header.Value), header.Name, header.Name, "header")

\* the value extracted for one header
HeaderRef(header) ==
    NewRef(StrV(IF ToLower(header.Name) = "authorization"
                THEN TrimPrefix(header.Value, "Bearer ")
                ELSE header.Value),
           header.Name, header.Name, "header")

\* a processHeaders that compares the header name with the blacklist as written
processHeadersExact(headers) ==
    LET kept == SelectSeq(headers, LAMBDA h : h.Name \notin blacklist)
    IN [i \in 1..Len(kept) |-> HeaderRef(kept[i])]

\* processHeaders: one reference per header outside the blacklist, in order
processHeaders(headers) ==
    LET kept == SelectSeq(headers, LAMBDA h : ToLower(h.Name) \notin blacklist)
    IN [i \in 1..Len(kept) |-> HeaderRef(kept[i])]

\* the loops that set Source and SourceType
Owned(refs, i, side) ==
    [j \in 1..Len(refs) |-> [refs[j] EXCEPT !.Source = i, !.SourceType = side]]

\* one iteration of a processHar that gives up a side whose body fails to parse
CallDetailsOfSkippingSide(i, entry) ==
    LET post == entry.Request.PostData
        reqBody == IF post # Nil /\ post.Text # "" THEN post.Text ELSE ""
        requestMimeType == IF post # Nil THEN post.MimeType ELSE ""
        req == processBody(reqBody, requestMimeType)
        resp == processBody(entry.Response.Content.Text, entry.Response.Content.MimeType)
        url == ExtractURLStrings(entry.Request.URL)
    IN { [RequestDetails |-> IF req.err THEN <<>>
                             ELSE Owned(rb \o processHeaders(entry.Request.Headers), i, "request")
                                  \o Owned(u, i, "request"),
          ResponseDetails |-> IF resp.err THEN <<>>
                              ELSE Owned(pb \o processHeaders(entry.Response.Headers), i, "response"),
          RequestChainedValues |-> <<>>,
          ResponseChainedValues |-> <<>>,
          Name |-> ""]
         : rb \in req.refs, pb \in resp.refs, u \in url.refs }

\* one iteration of processHar: the CallDetails it can build for entry i
CallDetailsOf(i, entry) ==
    LET post == entry.Request.PostData
        reqBody == IF post # Nil /\ post.Text # "" THEN post.Text ELSE ""
        requestMimeType == IF post # Nil THEN post.MimeType ELSE ""
        req == processBody(reqBody, requestMimeType)
        resp == processBody(entry.Response.Content.Text, entry.Response.Content.MimeType)
        url == ExtractURLStrings(entry.Request.URL)
    IN { [RequestDetails |-> Owned(rb \o processHeaders(entry.Request.Headers), i, "request")
                             \o Owned(u, i, "request"),
          ResponseDetails |-> Owned(pb \o processHeaders(entry.Response.Headers), i, "response"),
          RequestChainedValues |-> <<>>,
          ResponseChainedValues |-> <<>>,
          Name |-> ""]
         : rb \in req.refs, pb \in resp.refs, u \in url.refs }

\* the diagnostics processHar logs for entry i
HarDiagnostics(i, entry) ==
    LET post == entry.Request.PostData
        req == processBody(IF post # Nil THEN post.Text ELSE "",
                           IF post # Nil THEN post.MimeType ELSE "")
        resp == processBody(entry.Response.Content.Text, entry.Response.Content.MimeType)
    IN {<<"Error processing request body", i>> : x \in {1} \cap {IF req.err THEN 1 ELSE 0}}
       \cup {<<"Error processing response body", i>> : x \in {1} \cap {IF resp.err THEN 1 ELSE 0}}
       \cup {<<"Error extracting URL strings", i>> :
                x \in {1} \cap {IF ExtractURLStrings(entry.Request.URL).err THEN 1 ELSE 0}}

\* processHar: the lists of CallDetails it can return
processHar(h) ==
    ConcatChoices([i \in 1..Len(h) |-> { <<cd>> : cd \in CallDetailsOf(i, h[i]) }])

(***************************************************************************)
(* Interestingness filter                                                  *)
(***************************************************************************)
IsInteresting(r) ==
    IF r.Value.t = "null" THEN FALSE
    ELSE IF Contains(r.ReferencePath, "@type") THEN FALSE
    ELSE IF r.HeaderName = "Content-Type" THEN FALSE
    ELSE CASE r.Value.t = "str" -> Len(r.Value.s) >= 2
           [] r.Value.t = "num" -> r.Value.n >= 100
           [] OTHER -> FALSE

(***************************************************************************)
(* The captures of the model                                               *)
(***************************************************************************)
Req(method, url, headers, post) ==
    [Method |-> method, URL |-> url, Headers |-> headers, PostData |-> post]
Post(mime, text) == [MimeType |-> mime, Text |-> text]
Resp(mime, text, headers) ==
    [Content |-> [MimeType |-> mime, Text |-> text], Headers |-> headers]

\* the requests and responses of the model: tokens "abc" and "xy", the
\* numbers 12345 and 1234567, malformed JSON and form bodies, an unparseable
\* URL
ReqLogin == Req("GET", "http://h/login", <<>>, Nil)
ReqBearer ==
    Req("GET", "http://h/items?n=12345", <<Header("Authorization", "Bearer abc")>>, Nil)
ReqJson ==
    Req("POST", "http://h/o/abc",
        <<Header("content-type", "application/json"), Header("X-Ref", "xy")>>,
        Post("application/json", "{\"id\":\"abc\",\"q\":\"xy\"}"))
ReqBadJson ==
    Req("POST", "http://h/o/abc.json", <<Header("X-Id", "abc")>>,
        Post("application/json", "{\"id\":\"abc\""))
ReqBadURL == Req("GET", "http://h/%zz", <<Header("Authorization", "Bearer abc")>>, Nil)
ReqBadForm ==
    Req("POST", "http://h/v", <<Header("Host", "h")>>,
        Post("application/x-www-form-urlencoded", "a=%zz&b=abc"))
ReqForm ==
    Req("POST", "http://h/v/1234567", <<>>,
        Post("application/x-www-form-urlencoded", "id=xy"))

RespToken ==
    Resp("application/json", "{\"token\":\"abc\"}", <<Header("Content-Type", "application/json")>>)
RespData ==
    Resp("application/json", "{\"r\":[1234567,{\"id\":\"xy\"}],\"n\":[[12345]]}", <<Header("X-Id", "abc")>>)
RespBadJson == Resp("application/json", "{\"token\":\"abc\"", <<Header("X-Id", "abc")>>)

Entry(q, p) == [Request |-> q, Response |-> p]

Entries ==
    { Entry(ReqLogin, RespToken), Entry(ReqBearer, RespToken), Entry(ReqJson, RespData),
      Entry(ReqBadJson, RespToken), Entry(ReqBadURL, RespToken), Entry(ReqBadForm, RespData),
      Entry(ReqForm, RespBadJson) }

\* url.Parse and json.Unmarshal tabulated over the texts of the catalogue
urlParse == [raw \in { e.Request.URL : e \in Entries } |-> ParseURL(raw)]
jsonUnmarshal == [text \in { e.Response.Content.Text : e \in Entries } |-> ParseJSON(text)]

Captures == UNION { [1..n -> Entries] : n \in 1..MaxEntries }

\* the externally declared values: none (no -vars flag) or one record
VarsInputs ==
    { <<>>,
      <<[Name |-> "usr", SearchValue |-> "abc", InitializerPrompt |-> ""]>> }

(***************************************************************************)
(* Chain detector                                                          *)
(***************************************************************************)
\* a *ValueReference: entry i, side, position k in that side's details
Ref(i, side, k) == [i |-> i, side |-> side, k |-> k]
NoRef == Ref(0, "", 0)

Deref(cds, r) ==
    IF r.side = "request" THEN cds[r.i].RequestDetails[r.k]
    ELSE cds[r.i].ResponseDetails[r.k]

RECURSIVE Flat(_)
Flat(ss) == IF ss = <<>> THEN <<>> ELSE ss[1] \o Flat(Tail(ss))

\* the order in which findChainedValues visits the references: per call,
\* RequestDetails then ResponseDetails
VisitOrder(cds) ==
    Flat([i \in 1..Len(cds) |->
            [k \in 1..Len(cds[i].RequestDetails) |-> Ref(i, "request", k)]
            \o [k \in 1..Len(cds[i].ResponseDetails) |-> Ref(i, "response", k)]])

\* valueOccurrences[valueStr]
Occurrences(cds, valueStr) ==
    SelectSeq(VisitOrder(cds),
              LAMBDA r : IsInteresting(Deref(cds, r)) /\ Sprint(Deref(cds, r).Value) = valueStr)

OccurringValues(cds) ==
    { Sprint(Deref(cds, VisitOrder(cds)[j]).Value) :
        j \in { j \in 1..Len(VisitOrder(cds)) : IsInteresting(Deref(cds, VisitOrder(cds)[j])) } }

\* the scan with includeVal also set by a response-side usage
RECURSIVE ScanUsagesAnySide(_, _, _, _)
ScanUsagesAnySide(usages, k, seenResponse, includeVal) ==
    IF k > Len(usages) THEN [discard |-> FALSE, includeVal |-> includeVal]
    ELSE IF usages[k].side = "request" THEN
        IF ~seenResponse THEN [discard |-> TRUE, includeVal |-> includeVal]
        ELSE ScanUsagesAnySide(usages, k + 1, seenResponse, TRUE)
    ELSE ScanUsagesAnySide(usages, k + 1, TRUE, seenResponse)

\* the scan of one group: [discard, includeVal]
RECURSIVE ScanUsages(_, _, _, _)
ScanUsages(usages, k, seenResponse, includeVal) ==
    IF k > Len(usages) THEN [discard |-> FALSE, includeVal |-> includeVal]
    ELSE IF usages[k].side = "request" THEN
        IF ~seenResponse THEN [discard |-> TRUE, includeVal |-> includeVal]
        ELSE ScanUsages(usages, k + 1, seenResponse, TRUE)
    ELSE ScanUsages(usages, k + 1, TRUE, includeVal)

\* the loop NextChainedValue without its "continue NextChainedValue"
KeepGroupAnyOrder(usages) == \E k \in 1..Len(usages) : usages[k].side = "request"

\* the loop NextChainedValue: is the group appended to filteredChainedValues
KeepGroup(usages) ==
    LET r == ScanUsages(usages, 1, FALSE, FALSE) IN ~r.discard /\ r.includeVal

NewChain(value, usages, external, name, init) ==
    [Value |-> value, AllUsages |-> usages, ValueSource |-> NoRef,
     VariableName |-> name, ExternalSource |-> external, InitScript |-> init]

\* the groups that become chainedValues: more than one occurrence
SharedGroup(refs) == Len(refs) > 1

\* the lists of Chains findChainedValues can return (the map of occurrences
\* is iterated in unspecified order)
findChainedValues(cds) ==
    LET kept == { v \in OccurringValues(cds) :
                    SharedGroup(Occurrences(cds, v)) /\ KeepGroup(Occurrences(cds, v)) }
        n == Cardinality(kept)
    IN { [j \in 1..n |-> NewChain(f[j], Occurrences(cds, f[j]), FALSE, "", "")] :
           f \in { f \in [1..n -> kept] : \A a, b \in 1..n : f[a] = f[b] => a = b } }

(***************************************************************************)
(* Externally declared values                                              *)
(***************************************************************************)
\* addPredefinedUseIfFound over the details of both sides of every call
PredefinedUsagesAnySide(cds, searchValue) ==
    SelectSeq(VisitOrder(cds),
              LAMBDA r : Deref(cds, r).Value.t = "str" /\ Deref(cds, r).Value.s = searchValue)

\* addPredefinedUseIfFound over every RequestDetails entry, in order
PredefinedUsages(cds, searchValue) ==
    SelectSeq(Flat([i \in 1..Len(cds) |->
                      [k \in 1..Len(cds[i].RequestDetails) |-> Ref(i, "request", k)]]),
              LAMBDA r : Deref(cds, r).Value.t = "str" /\ Deref(cds, r).Value.s = searchValue)

RECURSIVE extractPredefinedVars(_, _, _)
extractPredefinedVars(cds, vs, values) ==
    IF vs = <<>> THEN values
    ELSE LET v == vs[1]
             uses == PredefinedUsages(cds, v.SearchValue)
         IN extractPredefinedVars(cds, Tail(vs),
                IF uses # <<>>
                THEN Append(values, NewChain(v.SearchValue, uses, TRUE, v.Name, v.InitializerPrompt))
                ELSE values)

(***************************************************************************)
(* Linking                                                                 *)
(***************************************************************************)
\* the inner loop body without the test "ValueSource == nil"
LinkUsageLast(st, c, r) ==
    LET cds == st.cds
        linked == [Deref(cds, r) EXCEPT !.Context = c]
    IN IF r.side = "request"
       THEN [cds |-> [cds EXCEPT ![r.i].RequestDetails[r.k] = linked,
                                 ![r.i].RequestChainedValues = Append(@, r)],
             chs |-> st.chs]
       ELSE [cds |-> [cds EXCEPT ![r.i].ResponseDetails[r.k] = linked,
                                 ![r.i].ResponseChainedValues = Append(@, r)],
             chs |-> [st.chs EXCEPT ![c].ValueSource = r]]

\* the body of the inner loop of repopulateCallDetails for usage r of chain c
LinkUsage(st, c, r) ==
    LET cds == st.cds
        linked == [Deref(cds, r) EXCEPT !.Context = c]
    IN IF r.side = "request"
       THEN [cds |-> [cds EXCEPT ![r.i].RequestDetails[r.k] = linked,
                                 ![r.i].RequestChainedValues = Append(@, r)],
             chs |-> st.chs]
       ELSE [cds |-> [cds EXCEPT ![r.i].ResponseDetails[r.k] = linked,
                                 ![r.i].ResponseChainedValues = Append(@, r)],
             chs |-> IF st.chs[c].ValueSource = NoRef
                     THEN [st.chs EXCEPT ![c].ValueSource = r]
                     ELSE st.chs]

RECURSIVE LinkAll(_, _, _)
LinkAll(st, c, k) ==
    IF c > Len(st.chs) THEN st
    ELSE IF k > Len(st.chs[c].AllUsages) THEN LinkAll(st, c + 1, 1)
    ELSE LinkAll(LinkUsage(st, c, st.chs[c].AllUsages[k]), c, k + 1)

\* a linking that also writes the placeholder over the value of every linked
\* request-side reference
repopulateCallDetailsSubstituting(cds, chs) ==
    LET st == LinkAll([cds |-> cds, chs |-> chs], 1, 1)
        subst(v) == IF v.Context # 0
                    THEN [v EXCEPT !.Value = StrV("{{" \o st.chs[v.Context].Value \o "}}")]
                    ELSE v
    IN [cds |-> [i \in 1..Len(st.cds) |->
                   [st.cds[i] EXCEPT !.RequestDetails =
                      [k \in 1..Len(st.cds[i].RequestDetails) |-> subst(st.cds[i].RequestDetails[k])]]],
        chs |-> st.chs]

\* repopulateCallDetails: the call details and chains after linking
repopulateCallDetails(cds, chs) == LinkAll([cds |-> cds, chs |-> chs], 1, 1)

(***************************************************************************)
(* Locator stabilizer                                                      *)
(***************************************************************************)
\* the number of levels updateComplexPaths keeps below the target
PruneLevels == 4

splitPathTokens(pathStr) == IF pathStr = "" THEN <<>> ELSE Split(pathStr, ".")

RECURSIVE Atoi(_)
Atoi(d) ==
    IF d = "" THEN 0
    ELSE 10 * Atoi(SubSeq(d, 1, Len(d) - 1)) + (IndexFrom(Digits, Ch(d, Len(d)), 1) - 1)

\* the digits fmt.Sscanf("%d") reads at the start of s
RECURSIVE LeadingDigits(_)
LeadingDigits(s) ==
    IF s # "" /\ Contains(Digits, Ch(s, 1))
    THEN Ch(s, 1) \o LeadingDigits(SubSeq(s, 2, Len(s)))
    ELSE ""

\* parseArrayKey: [key, index, hasIndex, err]
parseArrayKey(token) ==
    LET start == IndexFrom(token, "[", 1)
        end == IndexFrom(token, "]", 1)
        keyPart == SubSeq(token, 1, start - 1)
        idxPart == SubSeq(token, start + 1, end - 1)
        neg == HasPrefix(idxPart, "-")
        body == IF neg \/ HasPrefix(idxPart, "+") THEN SubSeq(idxPart, 2, Len(idxPart))
                ELSE idxPart
        digits == LeadingDigits(body)
    IN IF start = 0 THEN [key |-> token, index |-> -1, hasIndex |-> FALSE, err |-> FALSE]
       ELSE IF end = 0 \/ end < start
            THEN [key |-> "", index |-> -1, hasIndex |-> FALSE, err |-> TRUE]
       ELSE IF idxPart = "" \/ digits = ""
            THEN [key |-> keyPart, index |-> -1, hasIndex |-> FALSE, err |-> TRUE]
       ELSE [key |-> keyPart, index |-> IF neg THEN 0 - Atoi(digits) ELSE Atoi(digits),
             hasIndex |-> TRUE, err |-> FALSE]

Placeholder == StrV("...")

RECURSIVE keepLevels(_, _)
keepLevels(node, levels) ==
    IF levels <= 0 THEN Placeholder
    ELSE CASE node.t = "obj" ->
                Obj([i \in 1..Len(node.kv) |->
                       KV(node.kv[i].k, keepLevels(node.kv[i].v, levels - 1))])
           [] node.t = "arr" ->
                Arr([i \in 1..Len(node.el) |-> keepLevels(node.el[i], levels - 1)])
           [] OTHER -> node

HasKey(node, key) == \E i \in 1..Len(node.kv) : node.kv[i].k = key
Lookup(node, key) == node.kv[CHOOSE i \in 1..Len(node.kv) : node.kv[i].k = key].v

Pruned(v) == [err |-> FALSE, v |-> v]
PruneError == [err |-> TRUE, v |-> NullV]

\* pruneJSON: [err, v]
RECURSIVE pruneJSON(_, _, _)
pruneJSON(node, pathTokens, levels) ==
    IF pathTokens = <<>> THEN Pruned(keepLevels(node, levels))
    ELSE LET a == parseArrayKey(pathTokens[1]) IN
         CASE node.t = "obj" ->
                IF a.err THEN PruneError
                ELSE IF ~HasKey(node, a.key) THEN Pruned(Obj(<<>>))
                ELSE LET child == Lookup(node, a.key) IN
                     IF a.hasIndex THEN
                         IF child.t # "arr" THEN Pruned(Obj(<<KV(a.key, child)>>))
                         ELSE IF a.index < 0 \/ a.index >= Len(child.el)
                              THEN Pruned(Obj(<<KV(a.key, NullV)>>))
                         ELSE LET pc1 == pruneJSON(child.el[a.index + 1], Tail(pathTokens), levels)
                              IN IF pc1.err THEN PruneError
                                 ELSE Pruned(Obj(<<KV(a.key, Arr(<<pc1.v>>))>>))
                     ELSE LET pc2 == pruneJSON(child, Tail(pathTokens), levels)
                          IN IF pc2.err THEN PruneError
                             ELSE Pruned(Obj(<<KV(a.key, pc2.v)>>))
           [] node.t = "arr" ->
                IF a.err THEN PruneError
                ELSE IF ~a.hasIndex THEN Pruned(node)
                ELSE IF a.index < 0 \/ a.index >= Len(node.el) THEN Pruned(NullV)
                ELSE LET pc3 == pruneJSON(node.el[a.index + 1], Tail(pathTokens), levels)
                     IN IF pc3.err THEN PruneError
                        ELSE Pruned(Arr([i \in 1..Len(node.el) |->
                                           IF i = a.index + 1 THEN pc3.v ELSE NullV]))
           [] OTHER -> Pruned(node)

\* the descent of pruneJSON along pathTokens: [found, v], v the node at which
\* the tokens are used up (where keepLevels is applied)
RECURSIVE Navigate(_, _)
Navigate(node, pathTokens) ==
    IF pathTokens = <<>> THEN [found |-> TRUE, v |-> node]
    ELSE LET a == parseArrayKey(pathTokens[1])
             missing == [found |-> FALSE, v |-> NullV]
         IN CASE node.t = "obj" ->
                   IF a.err \/ ~HasKey(node, a.key) THEN missing
                   ELSE LET child == Lookup(node, a.key) IN
                        IF a.hasIndex THEN
                            IF child.t # "arr" \/ a.index < 0 \/ a.index >= Len(child.el)
                            THEN missing
                            ELSE Navigate(child.el[a.index + 1], Tail(pathTokens))
                        ELSE Navigate(child, Tail(pathTokens))
              [] node.t = "arr" ->
                   IF a.err \/ ~a.hasIndex \/ a.index < 0 \/ a.index >= Len(node.el)
                   THEN missing
                   ELSE Navigate(node.el[a.index + 1], Tail(pathTokens))
              [] OTHER -> missing

extractPartialJSON(root, targetPath, levels) ==
    pruneJSON(root, splitPathTokens(targetPath), levels)

\* what the locator-resolution collaborator (CallOpenAIString) can answer:
\* an error, an empty text, the current path unchanged, a revised expression
ResolverAnswers == {"err", "empty", "same", "revised"}
RevisedPath == "$..token"

\* does the loop body of updateComplexPaths reach the resolver for chain c
ReachesResolver(h, cds, ch) ==
    /\ ch.ValueSource # NoRef
    /\ ch.ValueSource.side = "response"
    /\ h[ch.ValueSource.i].Response.Content.Text # ""
    /\ ~jsonUnmarshal[h[ch.ValueSource.i].Response.Content.Text].err
    /\ ~extractPartialJSON(jsonUnmarshal[h[ch.ValueSource.i].Response.Content.Text].v,
                           Deref(cds, ch.ValueSource).ReferencePath, PruneLevels).err

\* the path left by a loop body without the test "len(newPathList) == 0"
StabilizedPathUnchecked(current, answer) ==
    CASE answer = "revised" -> RevisedPath
      [] answer = "empty" -> ""
      [] OTHER -> current

\* the path the loop body leaves in ValueSource.ReferencePath
StabilizedPath(current, answer) ==
    CASE answer = "revised" -> RevisedPath
      [] OTHER -> current

\* the diagnostics of the loop body for chain c (a diagnostic is identified
\* by its stage and its subject)
PathDiagnostics(h, cds, chs, c, answer) ==
    LET ch == chs[c]
        text == h[ch.ValueSource.i].Response.Content.Text
    IN IF ch.ValueSource = NoRef \/ ch.ValueSource.side # "response" \/ text = "" THEN {}
       ELSE IF jsonUnmarshal[text].err
            THEN {<<"updateComplexPaths", c>>}
       ELSE IF ~ReachesResolver(h, cds, ch)
            THEN {<<"updateComplexPaths", c>>}
       ELSE IF answer \in {"err", "empty"} THEN {<<"updateComplexPaths", c>>}
       ELSE {<<"Updated path", c>>}

\* an updateComplexPaths that stores the answer as a JSONPath rooted at "$"
RECURSIVE updateComplexPathsRooted(_, _, _, _, _)
updateComplexPathsRooted(h, cds, chs, answers, c) ==
    IF c > Len(chs) THEN cds
    ELSE LET src == chs[c].ValueSource IN
         IF ReachesResolver(h, cds, chs[c])
         THEN updateComplexPathsRooted(h,
                [cds EXCEPT ![src.i].ResponseDetails[src.k].ReferencePath =
                                "$." \o StabilizedPath(@, answers[c])],
                chs, answers, c + 1)
         ELSE updateComplexPathsRooted(h, cds, chs, answers, c + 1)

\* updateComplexPaths with the resolver's answer for each chain
RECURSIVE updateComplexPaths(_, _, _, _, _)
updateComplexPaths(h, cds, chs, answers, c) ==
    IF c > Len(chs) THEN cds
    ELSE LET src == chs[c].ValueSource IN
         IF ReachesResolver(h, cds, chs[c])
         THEN updateComplexPaths(h,
                [cds EXCEPT ![src.i].ResponseDetails[src.k].ReferencePath =
                                StabilizedPath(@, answers[c])],
                chs, answers, c + 1)
         ELSE updateComplexPaths(h, cds, chs, answers, c + 1)

(***************************************************************************)
(* Naming                                                                  *)
(***************************************************************************)
\* WithRetries(f, 3) in run()
Retries == 3

NameResponse(name) == [VariableName |-> name, InitScript |-> ""]

\* what CallOpenAIArray[VariableGeneratorResponse] can return for n chains:
\* an error (no API key, transport failure, unparseable text) or a parsed
\* array of any length, with distinct names, one name repeated, objects that
\* carry no variable_name, or names built on an example value ("abc")
NameAnswers(n) ==
    { [err |-> TRUE, res |-> <<>>] }
    \cup { [err |-> FALSE, res |-> [i \in 1..m |-> NameResponse("v" \o Itoa(i))]] : m \in 0..(n + 1) }
    \cup { [err |-> FALSE, res |-> [i \in 1..n |-> NameResponse("v1")]],
           [err |-> FALSE, res |-> [i \in 1..n |-> NameResponse("")]],
           [err |-> FALSE, res |-> [i \in 1..n |-> NameResponse("abc" \o Itoa(i))]] }

\* the loop "Assign variable names" up to the first index res does not have
NamedBy(chs, res) ==
    [i \in 1..Len(chs) |->
        IF i <= Len(res)
        THEN [chs[i] EXCEPT !.VariableName = res[i].VariableName,
                            !.InitScript = res[i].InitScript]
        ELSE chs[i]]

\* one call of assignVariableNames: how it ends and the chains it leaves
\* ("fatal": log.Fatalf; "panic": res[i] out of range; "return")
assignVariableNames(chs, answer) ==
    IF answer.err THEN [end |-> "fatal", chs |-> chs]
    ELSE IF Len(answer.res) < Len(chs) THEN [end |-> "panic", chs |-> NamedBy(chs, answer.res)]
    ELSE [end |-> "return", chs |-> NamedBy(chs, answer.res)]

\* a wrapper that goes on to the next iteration after every attempt while
\* iterations are left
RetryDecisionEager(end, i, hasError) ==
    IF i < Retries THEN "retry"
    ELSE IF end = "panic" THEN "panic"
    ELSE "return"

\* the wrapper built by WithRetries after an attempt that ended with `end`
\* (hasError: the wrapped function's last result is an error):
\* "retry", "return", or "panic" (re-panic, or the write to the nil callOut)
RetryDecision(end, i, hasError) ==
    CASE end = "panic" -> IF i < Retries THEN "retry" ELSE "panic"
      [] end = "error" -> IF hasError /\ i < Retries THEN "retry" ELSE "return"
      [] OTHER -> "return"

\* what CallOpenAIArray[CallNameResponse] can return: an error, an array of
\* another length than the requests, an array of that length
CallNameAnswers == {"err", "mismatch", "ok"}

URLParses(h, i) == ~urlParse[h[i].Request.URL].err

\* the requests assignCallDetailNames sends: the calls whose URL parses
NameRequests(h) == SelectSeq([i \in 1..Len(h) |-> i], LAMBDA i : URLParses(h, i))

\* the fallback loops: the URL path as name, the loop of the mismatch branch
\* returning at the first URL that does not parse
FallbackNames(h, cds, stopAtBadURL) ==
    LET bad == { i \in 1..Len(h) : ~URLParses(h, i) }
        stop == IF stopAtBadURL /\ bad # {} THEN CHOOSE i \in bad : \A j \in bad : i <= j
                ELSE Len(h) + 1
    IN [i \in 1..Len(cds) |->
          IF i < stop /\ URLParses(h, i)
          THEN [cds[i] EXCEPT !.Name = urlParse[h[i].Request.URL].Path]
          ELSE cds[i]]

\* one call of assignCallDetailNames: [end, cds]
assignCallDetailNames(h, cds, answer) ==
    LET nreq == Len(NameRequests(h)) IN
    CASE answer = "err" -> [end |-> "error", cds |-> FallbackNames(h, cds, FALSE)]
      [] answer = "mismatch" -> [end |-> "error", cds |-> FallbackNames(h, cds, TRUE)]
      [] OTHER ->
           [end |-> IF nreq < Len(cds) THEN "panic" ELSE "return",
            cds |-> [i \in 1..Len(cds) |->
                       IF i <= nreq THEN [cds[i] EXCEPT !.Name = "call " \o Itoa(i)]
                       ELSE cds[i]]]

\* the runs of the wrapper WithRetries(assignVariableNames, Retries) from
\* attempt i: how each ends ("fatal", "panic", "return") and with which chains
RECURSIVE NamingRuns(_, _)
NamingRuns(chs, i) ==
    UNION { LET r == assignVariableNames(chs, answer)
                d == RetryDecision(r.end, i, FALSE)
            IN IF r.end = "fatal" THEN {r}
               ELSE IF d = "retry" THEN NamingRuns(r.chs, i + 1)
               ELSE {[end |-> d, chs |-> r.chs]}
            : answer \in NameAnswers(Len(chs)) }

\* the runs of the wrapper WithRetries(assignCallDetailNames, Retries)
RECURSIVE CallNamingRuns(_, _, _)
CallNamingRuns(h, cds, i) ==
    UNION { LET r == assignCallDetailNames(h, cds, answer)
                d == RetryDecision(r.end, i, TRUE)
            IN IF d = "retry" THEN CallNamingRuns(h, r.cds, i + 1)
               ELSE {[end |-> d, cds |-> r.cds, logged |-> r.end = "error"]}
            : answer \in CallNameAnswers }

(***************************************************************************)
(* Substitution and assembly                                               *)
(***************************************************************************)
PlaceholderOf(name) == "{{" \o name \o "}}"

\* a substitution that writes the placeholder of the first linked reference
\* without looking for its literal in the text
ReplaceValuesInStringBlind(input, refs, cds, chs) ==
    LET linked == SelectSeq(refs, LAMBDA r : Deref(cds, r).Context # 0)
    IN IF linked = <<>> THEN input
       ELSE PlaceholderOf(chs[Deref(cds, linked[1]).Context].VariableName)

\* ReplaceValuesInString: the references are applied in list order
RECURSIVE ReplaceValuesInString(_, _, _, _)
ReplaceValuesInString(input, refs, cds, chs) ==
    IF refs = <<>> THEN input
    ELSE LET v == Deref(cds, refs[1]) IN
         IF v.Context = 0 THEN ReplaceValuesInString(input, Tail(refs), cds, chs)
         ELSE ReplaceValuesInString(
                ReplaceAll(input, Sprint(v.Value), PlaceholderOf(chs[v.Context].VariableName)),
                Tail(refs), cds, chs)

\* the inner loops of BuildPostmanURL: a path component or query value that
\* equals a chained value becomes the placeholder of the first such reference
ReplaceWhole(text, refs, cds, chs) ==
    LET hits == SelectSeq(refs, LAMBDA r : Sprint(Deref(cds, r).Value) = text)
    IN IF hits = <<>> THEN text
       ELSE PlaceholderOf(chs[Deref(cds, hits[1]).Context].VariableName)

\* BuildPostmanURL for a URL that parses: the PostmanURLs it can build (the
\* query map is iterated in unspecified order)
BuildPostmanURL(rawUrl, refs, cds, chs) ==
    LET parsedURL == urlParse[rawUrl]
        comps == SelectSeq(Split(parsedURL.Path, "/"), LAMBDA c : c # "")
        pairs == ParseQuery(parsedURL.RawQuery).pairs
        keys == KeysOf(pairs)
        n == Len(keys)
        params(key) == LET vs == ValuesOf(pairs, key) IN
                       [j \in 1..Len(vs) |->
                          [Key |-> key, Value |-> ReplaceWhole(vs[j], refs, cds, chs)]]
    IN { [Raw |-> ReplaceValuesInString(rawUrl, refs, cds, chs),
          Protocol |-> parsedURL.Scheme,
          Host |-> <<parsedURL.Host>>,
          Path |-> [k \in 1..Len(comps) |-> ReplaceWhole(comps[k], refs, cds, chs)],
          Query |-> Flat([k \in 1..n |-> params(keys[p[k]])])]
         : p \in Perms(n) }

\* ReplaceChainedValuesInRequest for a request whose URL parses
ReplaceChainedValuesInRequest(entry, cd, cds, chs) ==
    LET refs == cd.RequestChainedValues
        headers == [k \in 1..Len(entry.Request.Headers) |->
                      [Key |-> entry.Request.Headers[k].Name,
                       Value |-> ReplaceValuesInString(entry.Request.Headers[k].Value,
                                                       refs, cds, chs)]]
        body == IF entry.Request.PostData # Nil
                THEN [Mode |-> "raw",
                      Raw |-> ReplaceValuesInString(entry.Request.PostData.Text, refs, cds, chs)]
                ELSE [Mode |-> "", Raw |-> ""]
    IN { [Method |-> entry.Request.Method, Header |-> headers, Body |-> body, URL |-> u]
         : u \in BuildPostmanURL(entry.Request.URL, refs, cds, chs) }

\* CreateTestScript: one extraction (variable, locator) per response-side
\* reference whose variable name was not used before in this script
RECURSIVE CreateTestScript(_, _, _, _)
CreateTestScript(refs, cds, chs, usedVariables) ==
    IF refs = <<>> THEN <<>>
    ELSE LET v == Deref(cds, refs[1])
             skip == \/ v.SourceType # "response"
                     \/ v.Context = 0
                     \/ chs[v.Context].VariableName \in usedVariables
         IN IF skip THEN CreateTestScript(Tail(refs), cds, chs, usedVariables)
            ELSE <<[Variable |-> chs[v.Context].VariableName, Locator |-> v.ReferencePath]>>
                 \o CreateTestScript(Tail(refs), cds, chs,
                                     usedVariables \cup {chs[v.Context].VariableName})

\* does BuildPostmanCollection panic: BuildPostmanURL dereferences the nil
\* *url.URL of a URL that does not parse, the variables loop dereferences
\* the nil ValueSource of a chain without response-side usage
BuildPanics(h, chs) ==
    \/ \E i \in 1..Len(h) : urlParse[h[i].Request.URL].err
    \/ \E c \in 1..Len(chs) : chs[c].ValueSource = NoRef

\* BuildPostmanCollection when it does not panic: the collections it can build
BuildPostmanCollection(h, cds, chs) ==
    LET itemsOf(i) ==
            { <<[Name |-> "Req " \o urlParse[h[i].Request.URL].Path,
                 Request |-> q,
                 Event |-> CreateTestScript(cds[i].ResponseChainedValues, cds, chs, {})]>>
              : q \in ReplaceChainedValuesInRequest(h[i], cds[i], cds, chs) }
        variables == [c \in 1..Len(chs) |->
                        [Key |-> chs[c].VariableName,
                         Description |-> Deref(cds, chs[c].ValueSource).ReferencePath]]
    IN { [Item |-> items, Variable |-> variables]
         : items \in ConcatChoices([i \in 1..Len(h) |-> itemsOf(i)]) }

\* no wrapped call is followed step by step
NoCall == [status |-> "idle"]

Init ==
    /\ pc = "processHar"
    /\ har \in Captures
    /\ vars = <<>>
    /\ callDetails = <<>>
    /\ chains = <<>>
    /\ log = {}
    /\ collection = Nil
    /\ outcome = "running"
    /\ retry = NoCall

\* run(): callDetailsList := processHar(har)
ProcessHar ==
    /\ pc = "processHar"
    /\ callDetails' \in processHar(har)
    /\ log' = log \cup UNION { HarDiagnostics(i, har[i]) : i \in 1..Len(har) }
    /\ pc' = "findChainedValues"
    /\ UNCHANGED <<retry, har, vars, chains, collection, outcome>>

\* run(): chainedValues := findChainedValues(callDetailsList)
FindChainedValues ==
    /\ pc = "findChainedValues"
    /\ chains' \in findChainedValues(callDetails)
    /\ pc' = "extractPredefinedVars"
    /\ UNCHANGED <<retry, har, vars, callDetails, log, collection, outcome>>

\* run(): the optional extractPredefinedVars, with the declared values read
\* from the -vars file
ExtractPredefinedVars ==
    /\ pc = "extractPredefinedVars"
    /\ \E vs \in VarsInputs :
         /\ vars' = vs
         /\ chains' = IF vs # <<>> THEN extractPredefinedVars(callDetails, vs, chains)
                      ELSE chains
    /\ pc' = "repopulateCallDetails"
    /\ UNCHANGED <<retry, har, callDetails, log, collection, outcome>>

\* run(): repopulateCallDetails(chainedValues)
RepopulateCallDetails ==
    /\ pc = "repopulateCallDetails"
    /\ LET st == repopulateCallDetails(callDetails, chains) IN
         /\ callDetails' = st.cds
         /\ chains' = st.chs
    /\ pc' = "updateComplexPaths"
    /\ UNCHANGED <<retry, har, vars, log, collection, outcome>>

\* run(): updateComplexPaths(chainedValues)
UpdateComplexPaths ==
    /\ pc = "updateComplexPaths"
    /\ LET asked == { c \in 1..Len(chains) : ReachesResolver(har, callDetails, chains[c]) } IN
       \E given \in [asked -> ResolverAnswers] :
         LET answers == [c \in 1..Len(chains) |-> IF c \in asked THEN given[c] ELSE "same"] IN
         /\ callDetails' = updateComplexPaths(har, callDetails, chains, answers, 1)
         /\ log' = log \cup UNION { PathDiagnostics(har, callDetails, chains, c, answers[c]) :
                                      c \in 1..Len(chains) }
    /\ pc' = "assignVariableNames"
    /\ UNCHANGED <<retry, har, vars, chains, collection, outcome>>

\* run(): WithRetries(assignVariableNames, 3)(chainedValues)
AssignVariableNames ==
    /\ pc = "assignVariableNames"
    /\ \E r \in NamingRuns(chains, 0) :
         /\ chains' = r.chs
         /\ pc' = IF r.end = "return" THEN "assignCallDetailNames" ELSE "done"
         /\ outcome' = IF r.end = "return" THEN outcome ELSE r.end
         /\ log' = log \cup (IF r.end = "fatal" THEN {<<"assignVariableNames", 0>>} ELSE {})
    /\ UNCHANGED <<retry, har, vars, callDetails, collection>>

\* run(): WithRetries(assignCallDetailNames, 3)(callDetailsList)
AssignCallDetailNames ==
    /\ pc = "assignCallDetailNames"
    /\ \E r \in CallNamingRuns(har, callDetails, 0) :
         /\ callDetails' = r.cds
         /\ pc' = IF r.end = "return" THEN "BuildPostmanCollection" ELSE "done"
         /\ outcome' = IF r.end = "return" THEN outcome ELSE r.end
         /\ log' = log \cup (IF r.logged THEN {<<"assignCallDetailNames", 0>>} ELSE {})
    /\ UNCHANGED <<retry, har, vars, chains, collection>>

\* run(): collection := BuildPostmanCollection(callDetailsList, chainedValues)
BuildCollection ==
    /\ pc = "BuildPostmanCollection"
    /\ IF BuildPanics(har, chains)
       THEN /\ pc' = "done"
            /\ outcome' = "panic"
            /\ collection' = collection
       ELSE /\ pc' = "WriteCollectionToFile"
            /\ outcome' = outcome
            /\ collection' \in BuildPostmanCollection(har, callDetails, chains)
    /\ UNCHANGED <<retry, har, vars, callDetails, chains, log>>

\* run(): WriteCollectionToFile succeeds, or fails and run returns the error
WriteCollectionToFile ==
    /\ pc = "WriteCollectionToFile"
    /\ \E written \in BOOLEAN : outcome' = IF written THEN "ok" ELSE "error"
    /\ pc' = "done"
    /\ UNCHANGED <<retry, har, vars, callDetails, chains, log, collection>>

Next ==
    \/ ProcessHar
    \/ FindChainedValues
    \/ ExtractPredefinedVars
    \/ RepopulateCallDetails
    \/ UpdateComplexPaths
    \/ AssignVariableNames
    \/ AssignCallDetailNames
    \/ BuildCollection
    \/ WriteCollectionToFile

Spec == Init /\ [][Next]_vars_all

(***************************************************************************)
(* Properties of the chain detector and of linking                         *)
(***************************************************************************)
\* every reference of the call details, and the capture order on references
AllRefs ==
    UNION { { Ref(i, "request", k) : k \in 1..Len(callDetails[i].RequestDetails) }
            \cup { Ref(i, "response", k) : k \in 1..Len(callDetails[i].ResponseDetails) }
            : i \in 1..Len(callDetails) }

Before(a, b) ==
    \/ a.i < b.i
    \/ a.i = b.i /\ a.side = "request" /\ b.side = "response"
    \/ a.i = b.i /\ a.side = b.side /\ a.k < b.k

Literal(r) == Sprint(Deref(callDetails, r).Value)

\* the interesting references that carry the literal v
Group(v) == { r \in AllRefs : IsInteresting(Deref(callDetails, r)) /\ Literal(r) = v }

\* findChainedValues has just returned; repopulateCallDetails has just returned
Detected == pc = "extractPredefinedVars"
Linked == pc = "updateComplexPaths"

DetectedChains == { c \in 1..Len(chains) : ~chains[c].ExternalSource }

\* C1: in the usages of every detected Chain a response-side usage comes
\* strictly before every request-side usage, and a literal with a
\* request-side usage that no response-side usage of it precedes has no Chain
C1_Causality ==
    Detected =>
      /\ \A c \in DetectedChains :
           LET u == chains[c].AllUsages IN
           \A k \in 1..Len(u) :
               u[k].side = "request" =>
                   \E j \in 1..(k - 1) : u[j].side = "response" /\ Before(u[j], u[k])
      /\ \A r \in AllRefs :
           (/\ r.side = "request"
            /\ IsInteresting(Deref(callDetails, r))
            /\ ~\E q \in Group(Literal(r)) : q.side = "response" /\ Before(q, r))
           => ~\E c \in DetectedChains : chains[c].Value = Literal(r)

\* a Chain was detected, and a literal shared by several usages was discarded
\* because a request used it before any response produced it
C1_Witness ==
    /\ Detected
    /\ chains # <<>>
    /\ \E r \in AllRefs :
         /\ r.side = "request"
         /\ IsInteresting(Deref(callDetails, r))
         /\ \E q \in Group(Literal(r)) : q.side = "response"
         /\ ~\E q \in Group(Literal(r)) : q.side = "response" /\ Before(q, r)

\* C2: every detected Chain has a request-side usage that comes after a
\* response-side usage; a literal with a single usage, or with response-side
\* usages only, has no Chain
C2_PostResponseUsage ==
    Detected =>
      /\ \A c \in DetectedChains :
           LET u == chains[c].AllUsages IN
           /\ Len(u) > 1
           /\ \E j, k \in 1..Len(u) : j < k /\ u[j].side = "response" /\ u[k].side = "request"
      /\ \A r \in AllRefs :
           (\/ Cardinality(Group(Literal(r))) = 1
            \/ \A q \in Group(Literal(r)) : q.side = "response")
           => ~\E c \in DetectedChains : chains[c].Value = Literal(r)

\* a Chain was detected next to a literal that two responses carry and no
\* request uses
C2_Witness ==
    /\ Detected
    /\ chains # <<>>
    /\ \E r \in AllRefs :
         /\ Cardinality(Group(Literal(r))) > 1
         /\ \A q \in Group(Literal(r)) : q.side = "response"

TokenPaths == {"token", "id"}
Tokens == {"abc", "xy"}

\* response i is the JSON object {p: tok}, nothing before it carries tok, a
\* later request j carries "Authorization: Bearer tok" and no request carries
\* tok anywhere else
BearerScenario(i, j, p, tok) ==
    /\ i < j
    /\ har[i].Response.Content.MimeType = "application/json"
    /\ har[i].Response.Content.Text = "{\"" \o p \o "\":\"" \o tok \o "\"}"
    /\ \E k \in 1..Len(har[j].Request.Headers) :
         har[j].Request.Headers[k] = Header("Authorization", "Bearer " \o tok)
    /\ \A r \in Group(tok) :
         \/ r.side = "response" /\ r.i >= i
         \/ r.side = "request" /\ r.i = j /\ Deref(callDetails, r).HeaderName = "Authorization"

\* C4: in the bearer token scenario detection and linking yield exactly one
\* Chain for the token: its value is the bare token, its origin is the
\* response value at path p, its only request-side usage is the
\* Authorization header with the value stripped of "Bearer "
C4_BearerChain ==
    Linked =>
      \A i, j \in 1..Len(har) : \A p \in TokenPaths : \A tok \in Tokens :
        BearerScenario(i, j, p, tok) =>
          /\ Cardinality({ c \in DetectedChains : chains[c].Value = tok }) = 1
          /\ \A c \in DetectedChains :
               chains[c].Value = tok =>
                 LET u == chains[c].AllUsages
                     origin == chains[c].ValueSource
                     requestUsages == { k \in 1..Len(u) : u[k].side = "request" }
                 IN /\ origin # NoRef
                    /\ origin.i = i /\ origin.side = "response"
                    /\ Deref(callDetails, origin).ReferencePath = p
                    /\ Deref(callDetails, origin).Value = StrV(tok)
                    /\ Cardinality(requestUsages) = 1
                    /\ \A k \in requestUsages :
                         /\ u[k].i = j
                         /\ Deref(callDetails, u[k]).HeaderName = "Authorization"
                         /\ Deref(callDetails, u[k]).Value = StrV(tok)

\* the scenario has happened and its Chain is linked
C4_Witness ==
    /\ Linked
    /\ \E i, j \in 1..Len(har) : \E p \in TokenPaths : \E tok \in Tokens :
         /\ BearerScenario(i, j, p, tok)
         /\ \E c \in DetectedChains : chains[c].Value = tok


(***************************************************************************)
(* Properties of substitution and assembly                                 *)
(***************************************************************************)
\* BuildPostmanCollection has just returned
Built == pc = "WriteCollectionToFile"

\* the texts of a rewritten request that are serialized
FieldsOf(q) ==
    {q.URL.Raw, q.Body.Raw}
    \cup { q.URL.Path[k] : k \in 1..Len(q.URL.Path) }
    \cup { q.URL.Query[k].Value : k \in 1..Len(q.URL.Query) }
    \cup { q.Header[k].Value : k \in 1..Len(q.Header) }

\* C5: after assembly no URL text, header value or body text of any
\* Interaction still contains the literal of a Chain: every occurrence has
\* been replaced by the placeholder
C5_NoLiteralLeft ==
    Built =>
      \A i \in 1..Len(collection.Item) : \A c \in 1..Len(chains) :
        \A text \in FieldsOf(collection.Item[i].Request) :
            ~Contains(text, chains[c].Value)

\* the text holds the literal of no Chain
NoLiteral(text) == \A c \in 1..Len(chains) : ~Contains(text, chains[c].Value)

\* C6: a header value, body text or URL that holds the literal of no Chain
\* is handed on unchanged by the rewrite
C6_SubstitutionIdentity ==
    Built =>
      \A i \in 1..Len(collection.Item) :
        LET q == collection.Item[i].Request
            e == har[i].Request
        IN /\ \A k \in 1..Len(e.Headers) :
                NoLiteral(e.Headers[k].Value) => q.Header[k].Value = e.Headers[k].Value
           /\ (e.PostData # Nil /\ NoLiteral(e.PostData.Text)) => q.Body.Raw = e.PostData.Text
           /\ NoLiteral(e.URL) =>
                /\ q.URL.Raw = e.URL
                /\ \A k \in 1..Len(q.URL.Path) :
                     Contains(e.URL, "/" \o q.URL.Path[k])
                /\ \A k \in 1..Len(q.URL.Query) :
                     Contains(e.URL, q.URL.Query[k].Key \o "=" \o q.URL.Query[k].Value)

\* a request of which one header was rewritten while its URL, free of every
\* literal, went through the rewrite
C6_Witness ==
    /\ Built
    /\ chains # <<>>
    /\ \E i \in 1..Len(collection.Item) :
         LET q == collection.Item[i].Request
             e == har[i].Request
         IN /\ NoLiteral(e.URL)
            /\ q.URL.Query # <<>>
            /\ \E k \in 1..Len(e.Headers) : q.Header[k].Value # e.Headers[k].Value

\* C7: when rewriting starts every Chain has a non-empty name, and the
\* variable list and the placeholders written for the usages of a Chain carry
\* the name the Chain has at the end of the run
C7_FinalNames ==
    /\ pc \in {"BuildPostmanCollection", "WriteCollectionToFile"} =>
         \A c \in 1..Len(chains) : chains[c].VariableName # ""
    /\ collection # Nil =>
         /\ \A c \in 1..Len(chains) : collection.Variable[c].Key = chains[c].VariableName
         /\ \A i \in 1..Len(collection.Item) :
              \A k \in 1..Len(har[i].Request.Headers) :
                \A n \in 1..Len(callDetails[i].RequestChainedValues) :
                  LET v == Deref(callDetails, callDetails[i].RequestChainedValues[n]) IN
                  (v.HeaderName = har[i].Request.Headers[k].Name /\ v.Context # 0
                   /\ Contains(har[i].Request.Headers[k].Value, Sprint(v.Value)))
                  => \E c \in 1..Len(chains) :
                       /\ chains[c].Value = Sprint(v.Value)
                       /\ Contains(collection.Item[i].Request.Header[k].Value,
                                   PlaceholderOf(chains[c].VariableName))

\* C8: whatever the naming collaborator does, the naming step hands the run
\* on to the next step: it ends in no fatal error and no crash
C8_NamingNeverAborts ==
    [][pc = "assignVariableNames" => (pc' = "assignCallDetailNames" /\ outcome' = "running")]_vars_all

\* C9: a run ends either with the collection written or with the failure to
\* write it: every run reaches the output-write step
C9_OnlyWriteFailureAborts == pc = "done" => outcome \in {"ok", "error"}

(***************************************************************************)
(* Properties of the extractor                                             *)
(***************************************************************************)
\* processHar has just returned
Extracted == pc = "findChainedValues"

SupportedType(mime) == mime \in {"application/json", "application/x-www-form-urlencoded"}

RequestBodyFails(i) ==
    LET post == har[i].Request.PostData IN
    post # Nil /\ SupportedType(post.MimeType) /\ processBody(post.Text, post.MimeType).err

ResponseBodyFails(i) ==
    LET content == har[i].Response.Content IN
    SupportedType(content.MimeType) /\ processBody(content.Text, content.MimeType).err

BodyValues(details) ==
    { k \in 1..Len(details) : details[k].SourceLocation \in {"bodyJson", "bodyForm"} }

\* every header outside the blacklist has its value among the details
HeadersExtracted(headers, details) ==
    \A k \in 1..Len(headers) :
        ToLower(headers[k].Name) \notin blacklist =>
            \E n \in 1..Len(details) :
                /\ details[n].HeaderName = headers[k].Name
                /\ details[n].SourceLocation = "header"
                /\ details[n].Value.t = "str"
                /\ Contains(headers[k].Value, details[n].Value.s)

\* every segment of the path of a URL that parses is among the details
URLExtracted(i) ==
    LET u == urlParse[har[i].Request.URL]
        segments == Split(u.Path, "/")
        details == callDetails[i].RequestDetails
    IN ~u.err =>
         \A k \in 1..Len(segments) :
             segments[k] # "" =>
                 \E n \in 1..Len(details) :
                     /\ details[n].Value = StrV(segments[k])
                     /\ HasPrefix(details[n].ReferencePath, "path[")

RequestSideExtracted(i) ==
    /\ HeadersExtracted(har[i].Request.Headers, callDetails[i].RequestDetails)
    /\ URLExtracted(i)
    /\ (har[i].Request.PostData # Nil /\ SupportedType(har[i].Request.PostData.MimeType)
        /\ ~IsBlank(har[i].Request.PostData.Text) /\ ~RequestBodyFails(i))
       => BodyValues(callDetails[i].RequestDetails) # {}

ResponseSideExtracted(i) ==
    /\ HeadersExtracted(har[i].Response.Headers, callDetails[i].ResponseDetails)
    /\ (SupportedType(har[i].Response.Content.MimeType)
        /\ ~IsBlank(har[i].Response.Content.Text) /\ ~ResponseBodyFails(i))
       => BodyValues(callDetails[i].ResponseDetails) # {}

\* every value keeps its Interaction and its direction
KeepsOrigin(i) ==
    /\ \A k \in 1..Len(callDetails[i].RequestDetails) :
         /\ callDetails[i].RequestDetails[k].Source = i
         /\ callDetails[i].RequestDetails[k].SourceType = "request"
    /\ \A k \in 1..Len(callDetails[i].ResponseDetails) :
         /\ callDetails[i].ResponseDetails[k].Source = i
         /\ callDetails[i].ResponseDetails[k].SourceType = "response"

\* C10: a request or response body of a supported content type that fails to
\* parse contributes no value, while the headers and the URL of the
\* Interaction and its other side are extracted and every value keeps its
\* Interaction and direction
C10_MalformedBody ==
    Extracted =>
      \A i \in 1..Len(har) :
        /\ RequestBodyFails(i) =>
             /\ BodyValues(callDetails[i].RequestDetails) = {}
             /\ RequestSideExtracted(i) /\ ResponseSideExtracted(i) /\ KeepsOrigin(i)
        /\ ResponseBodyFails(i) =>
             /\ BodyValues(callDetails[i].ResponseDetails) = {}
             /\ RequestSideExtracted(i) /\ ResponseSideExtracted(i) /\ KeepsOrigin(i)

\* a malformed JSON request body next to extracted request headers, URL
\* segments and response body values, and a malformed response body next to
\* extracted response headers and request body values
C10_Witness ==
    /\ Extracted
    /\ \E i \in 1..Len(har) :
         /\ RequestBodyFails(i)
         /\ callDetails[i].RequestDetails # <<>>
         /\ BodyValues(callDetails[i].ResponseDetails) # {}
    /\ \E i \in 1..Len(har) :
         /\ ResponseBodyFails(i)
         /\ callDetails[i].ResponseDetails # <<>>
         /\ BodyValues(callDetails[i].RequestDetails) # {}

(***************************************************************************)
(* Properties of the locator stabilizer                                    *)
(***************************************************************************)
\* updateComplexPaths has just returned
Stabilized == pc = "assignVariableNames"

OriginPath(cds, c) == Deref(cds, chains[c].ValueSource).ReferencePath

\* the references that are the origin of a Chain
Origins == { chains[c].ValueSource : c \in 1..Len(chains) } \ {NoRef}

OriginUnresolved(c) ==
    LET src == chains[c].ValueSource
        text == har[src.i].Response.Content.Text
    IN /\ src # NoRef
       /\ text # ""
       /\ ~jsonUnmarshal[text].err
       /\ ~Navigate(jsonUnmarshal[text].v, splitPathTokens(OriginPath(callDetails, c))).found

\* C12: a Chain whose recorded origin path does not resolve in the response
\* body keeps that path through the stabilizer, whatever the resolver answers
C12_MismatchKeepsPath ==
    [][pc = "updateComplexPaths" =>
        \A c \in 1..Len(chains) :
            OriginUnresolved(c) => OriginPath(callDetails', c) = OriginPath(callDetails, c)
    ]_vars_all

\* the call details after one more run of the stabilizer in which the
\* resolver returns every path it is asked about unchanged
Restabilized ==
    updateComplexPaths(har, callDetails, chains, [c \in 1..Len(chains) |-> "same"], 1)

\* the element of the origin response body a path targets
Target(c, path) ==
    Navigate(jsonUnmarshal[har[chains[c].ValueSource.i].Response.Content.Text].v,
             splitPathTokens(path))

BodyDoc(i, side) ==
    IF side = "request" THEN ParseJSON(har[i].Request.PostData.Text).v
    ELSE jsonUnmarshal[har[i].Response.Content.Text].v

\* the references flatten produced, over both sides of every call
JsonRefs == { r \in AllRefs : Deref(callDetails, r).SourceLocation = "bodyJson" }

\* C14: resolving the path flatten gave a leaf, with splitPathTokens,
\* parseArrayKey and the descent of pruneJSON, arrives at that very leaf of
\* the document, whatever the nesting of objects and arrays
C14_FlattenResolves ==
    Extracted =>
      \A r \in JsonRefs :
        Navigate(BodyDoc(r.i, r.side), splitPathTokens(Deref(callDetails, r).ReferencePath))
          = [found |-> TRUE, v |-> Deref(callDetails, r).Value]

(***************************************************************************)
(* Properties of the externally declared values                            *)
(***************************************************************************)
\* the request-side references whose value is the string v
RequestUses(v) ==
    { r \in AllRefs : r.side = "request" /\ Deref(callDetails, r).Value = StrV(v) }

\* the elements of a list of references
Elems(refs) == { refs[k] : k \in 1..Len(refs) }

Rewritten(i) == ReplaceChainedValuesInRequest(har[i], callDetails[i], callDetails, chains)

\* C16: the assembly step always hands on a collection: it has one entry per
\* Interaction, in the order of the capture, each with the rewritten request
\* and the extraction instructions of that Interaction, and one variable per
\* Chain, in order, keyed with the Chain's assigned name
C16_CollectionComplete ==
    [][pc = "BuildPostmanCollection" =>
        /\ pc' = "WriteCollectionToFile"
        /\ Len(collection'.Item) = Len(har)
        /\ \A i \in 1..Len(har) :
             /\ collection'.Item[i].Request \in Rewritten(i)
             /\ collection'.Item[i].Event
                  = CreateTestScript(callDetails[i].ResponseChainedValues, callDetails, chains, {})
        /\ Len(collection'.Variable) = Len(chains)
        /\ \A c \in 1..Len(chains) : collection'.Variable[c].Key = chains[c].VariableName
    ]_vars_all

\* C17: every extraction instruction of an entry stores, under the name of a
\* Chain whose origin usage lies in the response of that Interaction, what it
\* reads at the origin's locator path, and no entry has two instructions for
\* one variable name; the entry of an Interaction whose response only repeats
\* the value has no instruction for it
C17_ExtractionAtOrigin ==
    Built =>
      \A i \in 1..Len(collection.Item) :
        LET script == collection.Item[i].Event IN
        /\ \A k \in 1..Len(script) :
             \E c \in 1..Len(chains) :
               /\ chains[c].VariableName = script[k].Variable
               /\ chains[c].ValueSource.i = i
               /\ script[k].Locator = OriginPath(callDetails, c)
        /\ \A k, m \in 1..Len(script) : script[k].Variable = script[m].Variable => k = m

(***************************************************************************)
(* Frame of the pipeline                                                   *)
(***************************************************************************)
\* the references that are the origin usage of some Chain
OriginRefs == { chains[c].ValueSource : c \in 1..Len(chains) } \ {NoRef}

LinkedChains(i) ==
    { Deref(callDetails, callDetails[i].RequestChainedValues[k]).Context
      : k \in 1..Len(callDetails[i].RequestChainedValues) } \ {0}

\* text with every occurrence of the literal of a Chain of cs replaced, in one
\* pass from left to right, by the placeholder of that Chain
RECURSIVE SubstitutedOnce(_, _)
SubstitutedOnce(text, cs) ==
    IF text = "" THEN ""
    ELSE IF \E c \in cs : HasPrefix(text, chains[c].Value)
    THEN LET c == CHOOSE c \in cs : HasPrefix(text, chains[c].Value)
         IN PlaceholderOf(chains[c].VariableName)
            \o SubstitutedOnce(SubSeq(text, Len(chains[c].Value) + 1, Len(text)), cs)
    ELSE Ch(text, 1) \o SubstitutedOnce(SubSeq(text, 2, Len(text)), cs)

\* C19: the rewritten URL, header values and body of every entry are the
\* original texts with each occurrence of the literal of each Chain used by
\* the request replaced by the Chain's placeholder once; no later replacement
\* rewrites the text of a placeholder
C19_ReplacedOnce ==
    Built =>
      \A i \in 1..Len(collection.Item) :
        LET q == collection.Item[i].Request
            orig == har[i].Request
        IN /\ q.URL.Raw = SubstitutedOnce(orig.URL, LinkedChains(i))
           /\ \A k \in 1..Len(orig.Headers) :
                q.Header[k].Value = SubstitutedOnce(orig.Headers[k].Value, LinkedChains(i))
           /\ orig.PostData # Nil =>
                q.Body.Raw = SubstitutedOnce(orig.PostData.Text, LinkedChains(i))

(***************************************************************************)
(* The interestingness filter against its description                      *)
(***************************************************************************)
\* the filter as described: no null, no path with the token @type, no value
\* of the content-type header in any letter case, strings of at least two
\* characters, numbers of at least 100, nothing else
DescribedFilter(r) ==
    /\ r.Value.t # "null"
    /\ ~Contains(r.ReferencePath, "@type")
    /\ ToLower(r.HeaderName) # "content-type"
    /\ \/ r.Value.t = "str" /\ Len(r.Value.s) >= 2
       \/ r.Value.t = "num" /\ r.Value.n >= 100

\* C20: IsInteresting accepts an extracted value exactly when the described
\* filter accepts it
C20_FilterAsDescribed ==
    Extracted => \A r \in AllRefs : IsInteresting(Deref(callDetails, r)) = DescribedFilter(Deref(callDetails, r))

(***************************************************************************)
(* Properties of header extraction                                         *)
(***************************************************************************)
\* the references among the details of one side that carry a header name, in
\* order (URL values have the zero SourceLocation too, and no header name)
HeaderDetails(details) == SelectSeq(details, LAMBDA d : d.HeaderName # "")

\* the headers whose name, in lower case, is not on the blacklist
KeptHeaders(headers) == SelectSeq(headers, LAMBDA h : ToLower(h.Name) \notin blacklist)

\* the headers of one side have been extracted as described: one value per
\* kept header, in order, under the header's own name; the value is the
\* header's value, for Authorization without the prefix "Bearer "
HeadersAsDescribed(headers, details) ==
    LET kept == KeptHeaders(headers)
        refs == HeaderDetails(details)
    IN /\ Len(refs) = Len(kept)
       /\ \A k \in 1..Len(kept) :
            /\ refs[k].HeaderName = kept[k].Name
            /\ refs[k].ReferencePath = kept[k].Name
            /\ refs[k].Value = StrV(IF ToLower(kept[k].Name) = "authorization"
                                         /\ HasPrefix(kept[k].Value, "Bearer ")
                                    THEN SubSeq(kept[k].Value, 8, Len(kept[k].Value))
                                    ELSE kept[k].Value)

\* C21: the headers of both sides of every Interaction yield exactly one
\* value per header that is not blacklisted under any letter case, keyed by
\* the header's name, none for a blacklisted header, and the bare token for
\* an Authorization header
C21_HeaderValues ==
    Extracted =>
      \A i \in 1..Len(har) :
        /\ HeadersAsDescribed(har[i].Request.Headers, callDetails[i].RequestDetails)
        /\ HeadersAsDescribed(har[i].Response.Headers, callDetails[i].ResponseDetails)

\* a capture with a blacklisted header written with a capital letter and
\* with an Authorization header whose Bearer token was extracted bare
C21_Witness ==
    /\ Extracted
    /\ \E i \in 1..Len(har) : \E k \in 1..Len(har[i].Request.Headers) :
         LET h == har[i].Request.Headers[k] IN
         ToLower(h.Name) \in blacklist /\ h.Name \notin blacklist
    /\ \E i \in 1..Len(har) : \E k \in 1..Len(har[i].Request.Headers) :
         LET h == har[i].Request.Headers[k] IN
         /\ ToLower(h.Name) = "authorization" /\ HasPrefix(h.Value, "Bearer ")
         /\ \E d \in 1..Len(callDetails[i].RequestDetails) :
              /\ callDetails[i].RequestDetails[d].HeaderName = h.Name
              /\ "Bearer " \o callDetails[i].RequestDetails[d].Value.s = h.Value

(***************************************************************************)
(* Properties of the pruned neighbourhood                                  *)
(***************************************************************************)
\* the parsed body of the response that holds the origin of Chain c
OriginDoc(c) == jsonUnmarshal[har[chains[c].ValueSource.i].Response.Content.Text].v

\* the recorded origin path of Chain c resolves to a leaf of the response body
ResolvesToLeaf(c) ==
    /\ chains[c].ValueSource # NoRef
    /\ ReachesResolver(har, callDetails, chains[c])
    /\ Target(c, OriginPath(callDetails, c)).found
    /\ IsLeaf(Target(c, OriginPath(callDetails, c)).v)

\* C22: when the recorded path of an origin resolves to a leaf of the
\* response body, extractPartialJSON gives a document in which the same path
\* still resolves, through the same keys and array positions, to that leaf
C22_TargetKeptInPlace ==
    Linked =>
      \A c \in 1..Len(chains) :
        ResolvesToLeaf(c) =>
          LET path == OriginPath(callDetails, c)
              pruned == extractPartialJSON(OriginDoc(c), path, PruneLevels)
          IN /\ ~pruned.err
             /\ Navigate(pruned.v, splitPathTokens(path)) = Target(c, path)

(***************************************************************************)
(* WithRetries step by step: the loop of the wrapper around a function     *)
(* whose behaviour at each invocation is given by a script                 *)
(***************************************************************************)
\* what one invocation of the wrapped function can do: return without error,
\* return a non-nil error (only with an error result), panic
Behaviours(hasError) == IF hasError THEN {"return", "error", "panic"} ELSE {"return", "panic"}

\* the wrapper of WithRetries(f, Retries) at its entry: i is the loop
\* counter, calls the number of invocations of f, ends what they did
WrappedCalls ==
    UNION { { [status |-> "call", hasError |-> he, script |-> s, i |-> 0, calls |-> 0,
               ends |-> <<>>, attempt |-> 0, err |-> "nil"]
              : s \in [1..(Retries + 1) -> Behaviours(he)] }
            : he \in BOOLEAN }

InitRetry ==
    /\ pc = "WithRetries"
    /\ har = <<>>
    /\ vars = <<>>
    /\ callDetails = <<>>
    /\ chains = <<>>
    /\ log = {}
    /\ collection = Nil
    /\ outcome = "running"
    /\ retry \in WrappedCalls

pipeline_vars == <<pc, har, vars, callDetails, chains, log, collection, outcome>>

\* callOut, panicVal := safeCall(fv, in)
SafeCall ==
    /\ retry.status = "call"
    /\ retry' = [retry EXCEPT !.calls = @ + 1,
                              !.ends = Append(@, retry.script[retry.i + 1]),
                              !.status = "decide"]
    /\ UNCHANGED pipeline_vars

\* what the loop body does after the invocation that has just ended
Decision == RetryDecision(retry.ends[Len(retry.ends)], retry.i, retry.hasError)

\* continue: the next iteration of the loop
RetryAgain ==
    /\ retry.status = "decide"
    /\ Decision = "retry"
    /\ retry' = [retry EXCEPT !.i = @ + 1, !.status = "call"]
    /\ UNCHANGED pipeline_vars

\* return callOut: the results of the invocation that has just ended
ReturnResults ==
    /\ retry.status = "decide"
    /\ Decision = "return"
    /\ retry' = [retry EXCEPT !.status = "returned",
                              !.attempt = retry.calls,
                              !.err = IF retry.ends[Len(retry.ends)] = "error" THEN "f" ELSE "nil"]
    /\ UNCHANGED pipeline_vars

\* panic(panicVal), or the panic of the assignment into the nil callOut
PanicEscapes ==
    /\ retry.status = "decide"
    /\ Decision = "panic"
    /\ retry' = [retry EXCEPT !.status = "panicked"]
    /\ UNCHANGED pipeline_vars

NextRetry ==
    \/ SafeCall
    \/ RetryAgain
    \/ ReturnResults
    \/ PanicEscapes

SpecRetry == InitRetry /\ [][NextRetry]_vars_all /\ WF_vars_all(NextRetry)

\* the wrapper has ended
WrapperEnded == retry.status \in {"returned", "panicked"}

\* C23: the wrapper invokes the function at most Retries + 1 times, invokes
\* it again only after an invocation that panicked or returned an error,
\* returns the results of the first invocation that did neither, and ends
C23_BoundedRetries ==
    /\ [](/\ retry.calls <= Retries + 1
          /\ retry.calls = Len(retry.ends)
          /\ \A k \in 1..Len(retry.ends) :
               retry.ends[k] = "return" => k = Len(retry.ends)
          /\ (retry.status = "returned" /\ retry.ends[Len(retry.ends)] = "return")
               => retry.attempt = Len(retry.ends) /\ retry.err = "nil"
          /\ (retry.ends # <<>> /\ retry.ends[Len(retry.ends)] = "return")
               => retry.status \in {"decide", "returned"})
    /\ <>WrapperEnded

\* the function panicked, then returned an error, then returned without
\* error: the wrapper returned the results of the third invocation
C23_Witness ==
    /\ retry.status = "returned"
    /\ retry.ends = <<"panic", "error", "return">>
    /\ retry.attempt = 3

\* C24: a panic leaves the wrapper only when the function has no error
\* result, and only after Retries + 1 invocations; with an error result the
\* wrapper returns an error instead
C24_PanicBecomesError ==
    retry.status = "panicked" => (~retry.hasError /\ retry.calls = Retries + 1)

(***************************************************************************)
(* Properties of the links between values and Chains                       *)
(***************************************************************************)
\* the Chains that have reference r among their usages
ChainsUsing(r) == { c \in 1..Len(chains) : r \in Elems(chains[c].AllUsages) }

\* how often reference r stands in the chained-value list of its call and side
TimesListed(r) ==
    LET list == IF r.side = "request" THEN callDetails[r.i].RequestChainedValues
                ELSE callDetails[r.i].ResponseChainedValues
    IN Cardinality({ k \in 1..Len(list) : list[k] = r })

\* C25: after linking, every extracted value is a usage of at most one Chain;
\* a value that is a usage is linked to that Chain and stands once in the
\* chained-value list of its Interaction, and a value that is no usage is
\* linked to no Chain and stands in no list
C25_OneChainPerValue ==
    Linked =>
      \A r \in AllRefs :
        /\ Cardinality(ChainsUsing(r)) <= 1
        /\ \A c \in ChainsUsing(r) :
             Deref(callDetails, r).Context = c /\ TimesListed(r) = 1
        /\ ChainsUsing(r) = {} =>
             Deref(callDetails, r).Context = 0 /\ TimesListed(r) = 0

(***************************************************************************)
(* Repeatability of the detection                                          *)
(***************************************************************************)
\* the first response-side usage of a list of usages (the usage that
\* repopulateCallDetails makes the origin), NoRef when there is none
FirstResponseUsage(usages) ==
    LET resp == SelectSeq(usages, LAMBDA r : r.side = "response")
    IN IF resp = <<>> THEN NoRef ELSE resp[1]

\* what a run shows of its detected Chains: per position of the list the
\* value, the Interaction of the origin and the origin's path; the position
\* is also the number of the fallback name
DetectionResult(cds, chs) ==
    [c \in 1..Len(chs) |->
       LET o == FirstResponseUsage(chs[c].AllUsages)
       IN [Value |-> chs[c].Value,
           Origin |-> o.i,
           Path |-> IF o = NoRef THEN "" ELSE Deref(cds, o).ReferencePath]]

\* C26: the detection is repeatable: every list of Chains that extraction and
\* detection can produce for the capture of this run has the same values in
\* the same order with the same origins as the list this run produced
C26_Deterministic ==
    Detected =>
      \A cds \in processHar(har) :
        \A chs \in findChainedValues(cds) :
          DetectionResult(cds, chs) = DetectionResult(callDetails, chains)

(***************************************************************************)
(* Numbers as chain values                                                 *)
(***************************************************************************)
\* the digit text of a value: the decimal digits of a number as a JSON body
\* or a URL shows them, the text itself for a string
DigitText(v) == IF v.t = "num" THEN Itoa(v.n) ELSE Sprint(v)

\* the interesting values with the digit text of the number n, in the order
\* in which findChainedValues visits them
SameDigits(cds, n) ==
    SelectSeq(VisitOrder(cds),
              LAMBDA r : IsInteresting(Deref(cds, r)) /\ DigitText(Deref(cds, r).Value) = Itoa(n))

\* the interesting numbers of the extracted values
ExtractedNumbers ==
    { Deref(callDetails, r).Value.n :
        r \in { r \in AllRefs : Deref(callDetails, r).Value.t = "num"
                                /\ IsInteresting(Deref(callDetails, r)) } }

\* C27: a number is grouped under its decimal digits: when the values with the
\* digits of an extracted number n are shared and pass the causality scan,
\* the detection returns a Chain whose value is the digit text of n and whose
\* usages are those values
C27_NumberDigits ==
    Detected =>
      \A n \in ExtractedNumbers :
        LET g == SameDigits(callDetails, n) IN
        (SharedGroup(g) /\ KeepGroup(g)) =>
          \E c \in 1..Len(chains) : chains[c].Value = Itoa(n) /\ chains[c].AllUsages = g

(***************************************************************************)
(* Names of the Chains                                                     *)
(***************************************************************************)
\* assignVariableNames has just returned
Named == pc = "assignCallDetailNames"

\* the extraction instructions of entry i that read the origin of Chain c
OriginInstructions(i, c) ==
    { k \in 1..Len(collection.Item[i].Event) :
        /\ collection.Item[i].Event[k].Variable = chains[c].VariableName
        /\ collection.Item[i].Event[k].Locator = OriginPath(callDetails, c) }

\* C28: after naming, different Chains have different names, and in the built
\* collection the entry of the Interaction that holds the origin of a Chain
\* has an extraction instruction for that Chain's origin
C28_DistinctNames ==
    /\ Named =>
         \A c, d \in 1..Len(chains) :
           chains[c].VariableName = chains[d].VariableName => c = d
    /\ Built =>
         \A c \in 1..Len(chains) :
           chains[c].ValueSource # NoRef =>
             OriginInstructions(chains[c].ValueSource.i, c) # {}

\* the names under which the -vars file declares the literal of Chain c
DeclaredNames(c) ==
    { vars[k].Name : k \in { k \in 1..Len(vars) : vars[k].SearchValue = chains[c].Value } }

\* C29: after naming, an externally declared Chain still has the name of its
\* declaration
C29_DeclaredNameKept ==
    Named =>
      \A c \in 1..Len(chains) :
        chains[c].ExternalSource => chains[c].VariableName \in DeclaredNames(c)

(***************************************************************************)
(* The emitted extraction instruction                                      *)
(***************************************************************************)
IdentChars == Lower \o Upper \o Digits \o "_$"

\* the identifier characters at the start of s
RECURSIVE LeadingIdent(_)
LeadingIdent(s) ==
    IF s # "" /\ Contains(IdentChars, Ch(s, 1))
    THEN Ch(s, 1) \o LeadingIdent(SubSeq(s, 2, Len(s)))
    ELSE ""

\* the value of the member expression that buildScriptForVariable emits,
\* "responseJson" followed by rest, at the node responseJson stands for:
\* ".name" reads a property of an object and "[i]" an element of an array;
\* a missing property, an index outside the array and any text that is not
\* a chain of such accesses give no value of the document
RECURSIVE EvalMember(_, _)
EvalMember(node, rest) ==
    LET missing == [found |-> FALSE, v |-> NullV]
        after(n) == SubSeq(rest, n + 1, Len(rest))
    IN IF rest = "" THEN [found |-> TRUE, v |-> node]
       ELSE IF Ch(rest, 1) = "." THEN
           LET name == LeadingIdent(after(1)) IN
           IF name = "" \/ Contains(Digits, Ch(name, 1)) THEN missing
           ELSE IF node.t = "obj" /\ HasKey(node, name)
                THEN EvalMember(Lookup(node, name), after(1 + Len(name)))
                ELSE missing
       ELSE IF Ch(rest, 1) = "[" THEN
           LET digits == LeadingDigits(after(1)) IN
           IF digits = "" \/ Ch(rest, 2 + Len(digits)) # "]" THEN missing
           ELSE IF node.t = "arr" /\ Atoi(digits) < Len(node.el)
                THEN EvalMember(node.el[Atoi(digits) + 1], after(2 + Len(digits)))
                ELSE missing
       ELSE missing

\* what the instruction "var name = responseJson.<locator>" stores when the
\* recorded response of Interaction i is replayed: pm.response.json() parses
\* the response body, the member expression is evaluated on the result
EvalLocator(i, locator) ==
    LET body == jsonUnmarshal[har[i].Response.Content.Text]
    IN IF body.err THEN [found |-> FALSE, v |-> NullV]
       ELSE EvalMember(body.v, "." \o locator)

\* the origin of Chain c still has the path the extraction gave it
Unrevised(c) ==
    \E cds \in processHar(har) :
        LET a == Deref(cds, chains[c].ValueSource)
            b == Deref(callDetails, chains[c].ValueSource)
        IN /\ a.ReferencePath = b.ReferencePath
           /\ a.Value = b.Value
           /\ a.HeaderName = b.HeaderName
           /\ a.SourceLocation = b.SourceLocation

\* C30: in the built collection, the extraction instruction of a detected
\* Chain whose origin path was not revised reads, from the recorded response
\* body of the origin Interaction, the value of the Chain, for an origin in
\* the JSON body and for an origin in a response header
C30_LocatorYieldsValue ==
    Built =>
      \A c \in DetectedChains :
        Unrevised(c) =>
          \A k \in OriginInstructions(chains[c].ValueSource.i, c) :
            LET got == EvalLocator(chains[c].ValueSource.i,
                                   collection.Item[chains[c].ValueSource.i].Event[k].Locator)
            IN got.found /\ IsLeaf(got.v) /\ Sprint(got.v) = chains[c].Value

====
